---- MODULE Spec2Model ----
(***************************************************************************)
(* A model of run.py, the server manager of the Storyboard Generator: the  *)
(* PID file (.server_pids) and its text format, the liveness probe, the    *)
(* launch and termination of the two services, and the commands start,     *)
(* stop, restart, status, logs and dev.                                    *)
(*                                                                         *)
(* Three specifications share the variables:                               *)
(*   Spec       the commands, run one after another, with an environment   *)
(*              that spawns and ends processes in between;                 *)
(*   StoreSpec  save_pids and get_running_pids on arbitrary file contents, *)
(*              with save_pids taken one system call at a time so that a   *)
(*              reader can run in between;                                 *)
(*   TermSpec   stop_process called twice in a row on one (name, pid).     *)
(***************************************************************************)
EXTENDS Integers, Sequences, FiniteSets, TLC

VARIABLES
    proc,        \* the OS process table: PID -> process (or NoProc)
    listen,      \* TCP port -> PID of the listener, 0 when the port is free
    pidFile,     \* PID_FILE: [exists, data], data a sequence of characters
    nodeModules, \* BACKEND_DIR/node_modules exists
    logExists,   \* LOG_FILE exists
    lastCmd,     \* the operation that produced this state
    argv,        \* sys.argv of the command that produced it, as characters
    exitCode,    \* exit code of the last command
    report,      \* what cmd_status printed for each service
    termLog,     \* the stop_process calls of the last command, in order
    spawned,     \* PIDs of the processes the last command spawned
    pids,        \* the dictionary a get_running_pids call returned
    saved,       \* the dictionary handed to save_pids
    before,      \* what get_running_pids returned before save_pids opened the file
    wbuf,        \* save_pids: the characters written and not yet flushed
    wpc          \* save_pids: 0 outside it, i when the file is open and entry i
                 \* is the next to be written

vars == <<proc, listen, pidFile, nodeModules, logExists, lastCmd, argv, exitCode,
          report, termLog, spawned, pids, saved, before, wbuf, wpc>>

(***************************************************************************)
(* Bounds                                                                  *)
(***************************************************************************)
\* PIDs the OS hands out are 1..MaxPid
MaxPid == 3
\* lines a hand-edited or damaged PID file holds at most
MaxLines == 2
\* PIDs written through save_pids in StoreSpec are 1..MaxStorePid
MaxStorePid == 10

(***************************************************************************)
(* Configuration (run.py:24-32)                                            *)
(***************************************************************************)
BACKEND_PORT == 3001
FRONTEND_PORT == 8080

PIDS == 1..MaxPid
Ports == {BACKEND_PORT, FRONTEND_PORT}

\* the keys cmd_start and cmd_dev use in the pids dictionary
BackendName == <<"b", "a", "c", "k", "e", "n", "d">>
FrontendName == <<"f", "r", "o", "n", "t", "e", "n", "d">>

(***************************************************************************)
(* Python dictionaries: insertion-ordered, one value per key.  A           *)
(* dictionary is a sequence of [k, v] records with distinct keys.          *)
(***************************************************************************)
DictKeys(d) == {d[i].k : i \in 1..Len(d)}

DictHas(d, k) == k \in DictKeys(d)

DictGet(d, k) == d[CHOOSE i \in 1..Len(d) : d[i].k = k].v

\* d[k] = v: a present key keeps its position and takes the new value
DictPut(d, k, v) ==
    IF DictHas(d, k)
    THEN [i \in 1..Len(d) |-> IF d[i].k = k THEN [k |-> k, v |-> v] ELSE d[i]]
    ELSE Append(d, [k |-> k, v |-> v])

\* the mapping a dictionary denotes, order forgotten
DictPairs(d) == {<<d[i].k, d[i].v>> : i \in 1..Len(d)}

(***************************************************************************)
(* Text: strings are sequences of one-character strings.                   *)
(***************************************************************************)
DigitChars == <<"0", "1", "2", "3", "4", "5", "6", "7", "8", "9">>

IsDigit(c) == \E i \in 1..10 : DigitChars[i] = c

DigitVal(c) == (CHOOSE i \in 1..10 : DigitChars[i] = c) - 1

IsSpace(c) == c \in {" ", "\n", "\t"}

RECURSIVE FormatNat(_)
FormatNat(n) ==
    IF n < 10 THEN <<DigitChars[n + 1]>>
    ELSE FormatNat(n \div 10) \o <<DigitChars[(n % 10) + 1]>>

\* str(n), as the f-string of save_pids formats a PID
FormatInt(n) == IF n < 0 THEN <<"-">> \o FormatNat(-n) ELSE FormatNat(n)

RECURSIVE LStrip(_)
LStrip(s) == IF s # <<>> /\ IsSpace(Head(s)) THEN LStrip(Tail(s)) ELSE s

RECURSIVE RStrip(_)
RStrip(s) ==
    IF s # <<>> /\ IsSpace(s[Len(s)]) THEN RStrip(SubSeq(s, 1, Len(s) - 1)) ELSE s

\* str.strip()
Strip(s) == RStrip(LStrip(s))

\* c in s
Contains(s, c) == \E i \in 1..Len(s) : s[i] = c

\* s.split(c): the pieces between the occurrences of c
RECURSIVE Split(_, _)
Split(s, c) ==
    IF ~Contains(s, c) THEN <<s>>
    ELSE LET i == CHOOSE j \in 1..Len(s) :
                      s[j] = c /\ \A h \in 1..(j - 1) : s[h] # c
         IN  <<SubSeq(s, 1, i - 1)>> \o Split(SubSeq(s, i + 1, Len(s)), c)

AllDigits(s) == s # <<>> /\ \A i \in 1..Len(s) : IsDigit(s[i])

RECURSIVE DigitsVal(_)
DigitsVal(s) ==
    IF s = <<>> THEN 0
    ELSE 10 * DigitsVal(SubSeq(s, 1, Len(s) - 1)) + DigitVal(s[Len(s)])

\* int(s) succeeds: optional blanks around an optional sign and decimal digits
IntOk(s) ==
    LET t == Strip(s)
    IN  /\ t # <<>>
        /\ IF Head(t) \in {"+", "-"} THEN AllDigits(Tail(t)) ELSE AllDigits(t)

\* int(s), where IntOk(s)
ParseInt(s) ==
    LET t == Strip(s)
    IN  IF Head(t) = "-" THEN 0 - DigitsVal(Tail(t))
        ELSE IF Head(t) = "+" THEN DigitsVal(Tail(t))
        ELSE DigitsVal(t)

\* iterating a text file: each line with its newline, a last line without
RECURSIVE FileLines(_)
FileLines(data) ==
    IF data = <<>> THEN <<>>
    ELSE IF ~Contains(data, "\n") THEN <<data>>
    ELSE LET i == CHOOSE j \in 1..Len(data) :
                      data[j] = "\n" /\ \A h \in 1..(j - 1) : data[h] # "\n"
         IN  <<SubSeq(data, 1, i)>> \o FileLines(SubSeq(data, i + 1, Len(data)))

(***************************************************************************)
(* The PID file                                                            *)
(***************************************************************************)
NoFile == [exists |-> FALSE, data |-> <<>>]

\* the loop body of get_running_pids on lines[i..]; a ValueError from the
\* unpacking or from int() leaves the loop for the except clause, which
\* prints a warning, and the entries read so far are returned
RECURSIVE ReadLines(_, _, _)
ReadLines(lines, i, acc) ==
    IF i > Len(lines) THEN acc
    ELSE LET line == Strip(lines[i])
             parts == Split(line, "=")
         IN  IF ~Contains(line, "=") THEN ReadLines(lines, i + 1, acc)
             ELSE IF Len(parts) # 2 THEN acc
             ELSE IF ~IntOk(parts[2]) THEN acc
             ELSE ReadLines(lines, i + 1, DictPut(acc, parts[1], ParseInt(parts[2])))

get_running_pids(file) ==
    IF ~file.exists THEN <<>> ELSE ReadLines(FileLines(file.data), 1, <<>>)

\* (a save_pids that forgets the newline)
PidLineNoNewline(e) == e.k \o <<"=">> \o FormatInt(e.v)

\* one f.write of save_pids
PidLine(e) == e.k \o <<"=">> \o FormatInt(e.v) \o <<"\n">>

RECURSIVE PidLines(_)
PidLines(d) == IF d = <<>> THEN <<>> ELSE PidLine(Head(d)) \o PidLines(Tail(d))

\* save_pids from open() to close(), with nothing running in between
save_pids(d) == [exists |-> TRUE, data |-> PidLines(d)]

(***************************************************************************)
(* The operating system: processes, process groups and listening ports.   *)
(* A process is a service the supervisor launched ("backend", "frontend", *)
(* leader of its own group through preexec_fn=os.setpgrp), a descendant a  *)
(* service forked ("child", in the service's group), or a process the     *)
(* supervisor has nothing to do with, of the same user ("ext") or of       *)
(* another user ("foreign").                                               *)
(***************************************************************************)
NoProc == [kind |-> "none", pgid |-> 0]

\* nothing printed about the services
NoReport == [backend |-> "none", frontend |-> "none"]

Alive(P) == {p \in PIDS : P[p].kind # "none"}

\* the members of process group g
Group(P, g) == {q \in Alive(P) : P[q].pgid = g}

\* PIDs the OS may hand out: not a live process, not the id of a live group
FreePids(P) == {p \in PIDS : P[p].kind = "none" /\ Group(P, p) = {}}

is_port_in_use(L, port) == L[port] # 0

\* os.kill(pid, 0) raises OSError for no such process (ESRCH) and for a
\* process of another user (EPERM)
is_process_running(P, pid) == pid \in PIDS /\ P[pid].kind \notin {"none", "foreign"}

(***************************************************************************)
(* A world is what a command reads and writes, with the record of the      *)
(* stop_process calls it made and of the processes it spawned.  Every      *)
(* operation below yields the set of its possible outcomes: the            *)
(* environment decides whether a process exits on SIGTERM within the       *)
(* grace period, whether a launched process outlives the settle delay,     *)
(* which PID the OS hands out, whether npm install succeeds.               *)
(***************************************************************************)
\* the processes of set dead are gone, and the ports they listened on free
Exited(W, dead) ==
    [W EXCEPT !.proc = [p \in PIDS |-> IF p \in dead THEN NoProc ELSE W.proc[p]],
              !.listen = [q \in Ports |-> IF W.listen[q] \in dead THEN 0
                                          ELSE W.listen[q]]]

\* process p is there: of kind kind, in group g
WithProc(W, p, kind, g) ==
    [W EXCEPT !.proc = [q \in PIDS |-> IF q = p THEN [kind |-> kind, pgid |-> g]
                                       ELSE W.proc[q]]]

\* process p listens on port
WithListener(W, port, p) ==
    [W EXCEPT !.listen = [q \in Ports |-> IF q = port THEN p ELSE W.listen[q]]]

\* a stop_process(name, pid) call returned ok: pid passed the liveness check
\* of line 145 or not (running), and these signals were delivered
Logged(W, name, pid, running, ok, sigs) ==
    [W EXCEPT !.tlog = Append(W.tlog, [name |-> name, pid |-> pid,
                                       running |-> running, ok |-> ok,
                                       sigs |-> sigs])]

Sig(name, g, hit) == [sig |-> name, pgid |-> g, hit |-> hit]

\* (a stop_process that never escalates to SIGKILL)
SignalledNoKill(W, name, pid, stubborn) ==
    LET g == W.proc[pid].pgid
        grp == Group(W.proc, g)
    IN  Logged(Exited(W, grp \ stubborn), name, pid, TRUE, TRUE,
               <<Sig("SIGTERM", g, grp)>>)

\* (a stop_process that sends SIGKILL at once)
SignalledKillFirst(W, name, pid, stubborn) ==
    LET g == W.proc[pid].pgid
        grp == Group(W.proc, g)
    IN  Logged(Exited(W, grp), name, pid, TRUE, TRUE, <<Sig("SIGKILL", g, grp)>>)

\* lines 149-160 once the liveness check of line 145 has passed: SIGTERM to
\* the group of pid, and SIGKILL to it if pid is still there a second later;
\* stubborn are the members that do not exit on SIGTERM within that second
Signalled(W, name, pid, stubborn) ==
    LET g == W.proc[pid].pgid
        grp == Group(W.proc, g)
        W1 == Exited(W, grp \ stubborn)
        term == Sig("SIGTERM", g, grp)
    IN  IF is_process_running(W1.proc, pid)
        THEN Logged(Exited(W1, Group(W1.proc, g)), name, pid, TRUE, TRUE,
                    <<term, Sig("SIGKILL", g, Group(W1.proc, g))>>)
        ELSE Logged(W1, name, pid, TRUE, TRUE, <<term>>)

\* stop_process(name, pid): the set of [w, ok] it can end in
stop_process(W, name, pid) ==
    IF ~is_process_running(W.proc, pid)
    THEN {[w |-> Logged(W, name, pid, FALSE, TRUE, <<>>), ok |-> TRUE]}
    ELSE \* the process went away by itself after line 145: ProcessLookupError
         {[w |-> Logged(Exited(W, {pid}), name, pid, TRUE, TRUE, <<>>), ok |-> TRUE]}
         \cup
         \* os.killpg raised another error (permission denied): line 164
         {[w |-> Logged(W, name, pid, TRUE, FALSE, <<>>), ok |-> FALSE]}
         \cup
         {[w |-> Signalled(W, name, pid, stubborn), ok |-> TRUE] :
             stubborn \in SUBSET Group(W.proc, W.proc[pid].pgid)}

\* (a launch that returns the PID without the poll() after the settle delay)
LaunchWithoutPoll(W, kind, port) ==
    {[w |-> W, pid |-> p] : p \in FreePids(W.proc)}
    \cup
    {[w |-> [WithListener(WithProc(W, p, kind, p), port, p)
                EXCEPT !.spawned = W.spawned \cup {p}],
      pid |-> p] : p \in FreePids(W.proc)}

\* subprocess.Popen in a new process group, the settle delay and poll():
\* the set of [w, pid], pid = 0 for a process that exited during the delay.
\* A service that is up listens on its port.
Launch(W, kind, port) ==
    {[w |-> W, pid |-> 0]}
    \cup
    {[w |-> [WithListener(WithProc(W, p, kind, p), port, p)
                EXCEPT !.spawned = W.spawned \cup {p}],
      pid |-> p] : p \in FreePids(W.proc)}

\* (a start_backend without the port check of lines 79-81)
start_backend_ignoring_port(W) ==
    (IF W.nm THEN {} ELSE {[w |-> W, pid |-> 0, raised |-> TRUE]})
    \cup
    {[w |-> o.w, pid |-> o.pid, raised |-> FALSE] :
        o \in Launch([W EXCEPT !.nm = TRUE, !.log = TRUE], "backend", BACKEND_PORT)}

\* start_backend(): the set of [w, pid, raised]; pid = 0 stands for None and
\* raised for the CalledProcessError of a failed npm install
start_backend(W) ==
    IF is_port_in_use(W.listen, BACKEND_PORT)
    THEN {[w |-> W, pid |-> 0, raised |-> FALSE]}
    ELSE (IF W.nm THEN {} ELSE {[w |-> W, pid |-> 0, raised |-> TRUE]})
         \cup
         {[w |-> o.w, pid |-> o.pid, raised |-> FALSE] :
             o \in Launch([W EXCEPT !.nm = TRUE, !.log = TRUE], "backend", BACKEND_PORT)}

\* start_frontend(): the set of [w, pid]
start_frontend(W) ==
    IF is_port_in_use(W.listen, FRONTEND_PORT)
    THEN {[w |-> W, pid |-> 0]}
    ELSE Launch(W, "frontend", FRONTEND_PORT)

\* lines 175-191 of cmd_start: the dictionary of the PIDs that came back
StartedPids(bpid, fpid) ==
    LET d1 == IF bpid # 0 THEN DictPut(<<>>, BackendName, bpid) ELSE <<>>
    IN  IF fpid # 0 THEN DictPut(d1, FrontendName, fpid) ELSE d1

\* dict.update
RECURSIVE DictUpdate(_, _)
DictUpdate(d, e) ==
    IF e = <<>> THEN d ELSE DictUpdate(DictPut(d, Head(e).k, Head(e).v), Tail(e))

\* (a cmd_start that adds its PIDs to the table it finds)
SaveStartedMerging(W, d) ==
    IF d # <<>>
    THEN [W EXCEPT !.file = save_pids(DictUpdate(get_running_pids(W.file), d))]
    ELSE W

\* lines 189-191 of cmd_start
SaveStarted(W, d) == IF d # <<>> THEN [W EXCEPT !.file = save_pids(d)] ELSE W

\* cmd_start(): the set of [w, code], code the exit code of the process
cmd_start(W) ==
    UNION {IF b.raised THEN {[w |-> b.w, code |-> 1]}
           ELSE {[w |-> SaveStarted(f.w, StartedPids(b.pid, f.pid)), code |-> 0] :
                    f \in start_frontend(b.w)} :
           b \in start_backend(W)}

\* for name, pid in pids.items(): stop_process(name.capitalize(), pid)
RECURSIVE StopEach(_, _)
StopEach(Ws, items) ==
    IF items = <<>> THEN Ws
    ELSE StopEach(UNION {{o.w : o \in stop_process(w, Head(items).k, Head(items).v)} :
                            w \in Ws},
                  Tail(items))

\* PID_FILE.unlink() when it exists
Unlinked(W) == [W EXCEPT !.file = NoFile]

\* lines 225-233 of cmd_stop: what it prints about the two ports
PortReport(W) ==
    [backend |-> IF is_port_in_use(W.listen, BACKEND_PORT)
                 THEN "port_in_use" ELSE "port_free",
     frontend |-> IF is_port_in_use(W.listen, FRONTEND_PORT)
                  THEN "port_in_use" ELSE "port_free"]

\* (a cmd_stop that keeps the PID file when a stop_process call failed)
cmd_stop_keeping(W) ==
    LET d == get_running_pids(W.file)
    IN  IF d = <<>> THEN {[W EXCEPT !.rep = PortReport(W)]}
        ELSE {IF \A i \in 1..Len(w.tlog) : w.tlog[i].ok THEN Unlinked(w) ELSE w :
                 w \in StopEach({W}, d)}

\* (a cmd_stop that, with nothing tracked, ends whatever listens on the ports)
cmd_stop_killing_by_port(W) ==
    LET d == get_running_pids(W.file)
    IN  IF d = <<>>
        THEN {[Exited(W, {W.listen[q] : q \in Ports}) EXCEPT !.rep = PortReport(W)]}
        ELSE {Unlinked(w) : w \in StopEach({W}, d)}

\* cmd_stop(): the set of worlds it can end in
cmd_stop(W) ==
    LET d == get_running_pids(W.file)
    IN  IF d = <<>> THEN {[W EXCEPT !.rep = PortReport(W)]}
        ELSE {Unlinked(w) : w \in StopEach({W}, d)}

\* (a cmd_restart that forgets cmd_stop)
cmd_restart_without_stop(W) == cmd_start(W)

\* cmd_restart(): cmd_stop, a second's sleep, cmd_start
cmd_restart(W) == UNION {cmd_start(w) : w \in cmd_stop(W)}

\* (a cmd_status that reports a busy port only for a service without record)
StatusOfUntracked(W, d, name, port) ==
    IF DictHas(d, name) /\ is_process_running(W.proc, DictGet(d, name))
    THEN "running"
    ELSE IF ~DictHas(d, name) /\ is_port_in_use(W.listen, port) THEN "port_in_use"
    ELSE "stopped"

\* (a cmd_status that trusts the record without the liveness check)
StatusOfTrusting(W, d, name, port) ==
    IF DictHas(d, name) THEN "running"
    ELSE IF is_port_in_use(W.listen, port) THEN "port_in_use"
    ELSE "stopped"

\* one service's line of cmd_status
StatusOf(W, d, name, port) ==
    IF DictHas(d, name) /\ is_process_running(W.proc, DictGet(d, name))
    THEN "running"
    ELSE IF is_port_in_use(W.listen, port) THEN "port_in_use"
    ELSE "stopped"

\* cmd_status(): the world with what it prints for the two services
cmd_status(W) ==
    LET d == get_running_pids(W.file)
    IN  [W EXCEPT !.rep = [backend |-> StatusOf(W, d, BackendName, BACKEND_PORT),
                           frontend |-> StatusOf(W, d, FrontendName, FRONTEND_PORT)]]

\* the KeyboardInterrupt handler of cmd_dev, lines 337-343
DevInterrupted(W, fpid) ==
    {Unlinked(w) :
        w \in IF fpid # 0 /\ is_process_running(W.proc, fpid)
              THEN {o.w : o \in stop_process(W, FrontendName, fpid)}
              ELSE {W}}

\* lines 334-343 of cmd_dev: the backend runs in the foreground until it
\* exits by itself or Ctrl+C arrives; the frontend may have exited meanwhile
DevForeground(W, fpid) ==
    LET ws == {W} \cup (IF fpid # 0 THEN {Exited(W, {fpid})} ELSE {})
    IN  {[w |-> w, code |-> 0, intr |-> FALSE] : w \in ws}
        \cup
        {[w |-> w2, code |-> 0, intr |-> TRUE] :
            w2 \in UNION {DevInterrupted(w, fpid) : w \in ws}}

\* lines 319-343 of cmd_dev, after the frontend was launched and recorded;
\* code 130 is the exit of a Python process ended by an unhandled Ctrl+C,
\* and intr tells that Ctrl+C ended the command
DevBackend(W, fpid) ==
    IF is_port_in_use(W.listen, BACKEND_PORT)
    THEN {[w |-> W, code |-> 0, intr |-> FALSE]}
    ELSE (IF W.nm THEN {}
          ELSE {[w |-> W, code |-> 1, intr |-> FALSE],
                [w |-> W, code |-> 130, intr |-> TRUE]})
         \cup DevForeground([W EXCEPT !.nm = TRUE], fpid)

\* cmd_dev(): the set of [w, code, intr]; the first outcome is Ctrl+C during
\* the settle delay of start_frontend, line 134
cmd_dev(W) ==
    UNION {(IF f.pid # 0 THEN {[w |-> f.w, code |-> 130, intr |-> TRUE]} ELSE {})
           \cup DevBackend(SaveStarted(f.w, StartedPids(0, f.pid)), f.pid) :
           f \in start_frontend(W)}

(***************************************************************************)
(* Spec: the commands, one at a time, and the environment in between.      *)
(***************************************************************************)
storeVars == <<pids, saved, before, wbuf, wpc>>

osVars == <<proc, listen, nodeModules, logExists>>

Init ==
    /\ proc = [p \in PIDS |-> NoProc]
    /\ listen = [q \in Ports |-> 0]
    /\ pidFile = NoFile
    /\ nodeModules = FALSE
    /\ logExists = FALSE
    /\ lastCmd = "idle"
    /\ argv = <<>>
    /\ exitCode = 0
    /\ report = NoReport
    /\ termLog = <<>>
    /\ spawned = {}
    /\ pids = <<>>
    /\ saved = <<>>
    /\ before = <<>>
    /\ wbuf = <<>>
    /\ wpc = 0

\* str.lower() on ASCII letters
UpperChars == <<"A", "B", "C", "D", "E", "F", "G", "H", "I", "J", "K", "L", "M",
                "N", "O", "P", "Q", "R", "S", "T", "U", "V", "W", "X", "Y", "Z">>

LowerChars == <<"a", "b", "c", "d", "e", "f", "g", "h", "i", "j", "k", "l", "m",
                "n", "o", "p", "q", "r", "s", "t", "u", "v", "w", "x", "y", "z">>

LowerChar(c) ==
    IF \E i \in 1..26 : UpperChars[i] = c
    THEN LowerChars[CHOOSE i \in 1..26 : UpperChars[i] = c]
    ELSE c

Lower(s) == [i \in 1..Len(s) |-> LowerChar(s[i])]

\* the command words of main
StartWord == <<"s", "t", "a", "r", "t">>
StopWord == <<"s", "t", "o", "p">>
RestartWord == <<"r", "e", "s", "t", "a", "r", "t">>
StatusWord == <<"s", "t", "a", "t", "u", "s">>
LogsWord == <<"l", "o", "g", "s">>
DevWord == <<"d", "e", "v">>
HelpWords == {<<"-", "h">>, <<"-", "-", "h", "e", "l", "p">>, <<"h", "e", "l", "p">>}

\* main(), lines 351-375: the branch taken for sys.argv = av
main(av) ==
    IF Len(av) < 2 THEN "missing"
    ELSE LET command == Lower(av[2])
         IN  IF command = StartWord THEN "start"
             ELSE IF command = StopWord THEN "stop"
             ELSE IF command = RestartWord THEN "restart"
             ELSE IF command = StatusWord THEN "status"
             ELSE IF command = LogsWord THEN "logs"
             ELSE IF command = DevWord THEN "dev"
             ELSE IF command \in HelpWords THEN "help"
             ELSE "unknown"

\* the command lines typed at the prompt: the command words as main spells
\* them or with capitals, words main does not know, and no word at all
ScriptName == <<"r", "u", "n", ".", "p", "y">>

SampleArgv ==
    {<<ScriptName>>}
    \cup {<<ScriptName, w>> :
             w \in {StartWord, <<"S", "t", "o", "p">>,
                    <<"R", "e", "S", "t", "A", "r", "T">>,
                    StatusWord, <<"S", "T", "A", "T", "U", "S">>,
                    LogsWord, <<"L", "o", "g", "s">>, <<"D", "E", "V">>,
                    <<"-", "H">>, <<"H", "e", "l", "p">>,
                    <<"s", "t", "a", "r", "t", "s">>, <<>>}
                   \cup HelpWords}

\* the branches of main
Branches == {"missing", "start", "stop", "restart", "status", "logs", "dev",
             "help", "unknown"}

\* the command lines on which main takes each branch
Typed == [b \in Branches |-> {av \in SampleArgv : main(av) = b}]

\* the world a command starts in
Now ==
    [proc |-> proc, listen |-> listen, file |-> pidFile, nm |-> nodeModules,
     log |-> logExists, tlog |-> <<>>, spawned |-> {}, rep |-> NoReport]

\* the command cmd, run from the shell prompt, ended in world w with exit
\* code code
Ends(w, cmd, code) ==
    /\ proc' = w.proc
    /\ listen' = w.listen
    /\ pidFile' = w.file
    /\ nodeModules' = w.nm
    /\ logExists' = w.log
    /\ termLog' = w.tlog
    /\ spawned' = w.spawned
    /\ lastCmd' = cmd
    /\ exitCode' = code
    /\ report' = w.rep
    /\ UNCHANGED storeVars

\* the shell prompt: no command is running
Idle == lastCmd = "idle"

\* main(), lines 351-375, one action for each branch
CmdStart ==
    /\ Idle
    /\ \E av \in Typed["start"] : argv' = av
    /\ \E o \in cmd_start(Now) : Ends(o.w, "start", o.code)

CmdStop ==
    /\ Idle
    /\ \E av \in Typed["stop"] : argv' = av
    /\ \E w \in cmd_stop(Now) : Ends(w, "stop", 0)

CmdRestart ==
    /\ Idle
    /\ \E av \in Typed["restart"] : argv' = av
    /\ \E o \in cmd_restart(Now) : Ends(o.w, "restart", o.code)

CmdStatus ==
    /\ Idle
    /\ \E av \in Typed["status"] : argv' = av
    /\ Ends(cmd_status(Now), "status", 0)

CmdLogs ==
    /\ Idle
    /\ \E av \in Typed["logs"] : argv' = av
    /\ Ends(Now, "logs", 0)

CmdDev ==
    /\ Idle
    /\ \E av \in Typed["dev"] : argv' = av
    /\ \E o \in cmd_dev(Now) :
          Ends(o.w, IF o.intr THEN "dev_interrupted" ELSE "dev", o.code)

CmdHelp ==
    /\ Idle
    /\ \E av \in Typed["help"] : argv' = av
    /\ Ends(Now, "help", 0)

CmdUnknown ==
    /\ Idle
    /\ \E av \in Typed["unknown"] : argv' = av
    /\ Ends(Now, "unknown", 1)

\* lines 352-354: no command word
CmdMissing ==
    /\ Idle
    /\ \E av \in Typed["missing"] : argv' = av
    /\ Ends(Now, "missing", 1)

\* The environment.  The PID space never runs out under a launch: a new
\* process is admitted only while a PID stays free for every free port.
Room ==
    Cardinality(FreePids(proc)) - 1 >= Cardinality({q \in Ports : listen[q] = 0})

EnvStep(w) == Ends(w, "idle", 0) /\ UNCHANGED argv

\* the supervisor process has exited and the shell prompt is back: what the
\* command printed and returned is no longer at hand
Exit ==
    /\ lastCmd # "idle"
    /\ lastCmd' = "idle"
    /\ argv' = <<>>
    /\ exitCode' = 0
    /\ report' = NoReport
    /\ termLog' = <<>>
    /\ spawned' = {}
    /\ UNCHANGED <<osVars, pidFile, storeVars>>

\* a process exits by itself
ProcExit == Idle /\ \E p \in Alive(proc) : EnvStep(Exited(Now, {p}))

\* a process the supervisor did not launch appears
ExtSpawn ==
    /\ Idle
    /\ Room
    /\ \E p \in FreePids(proc), k \in {"ext", "foreign"} :
          EnvStep(WithProc(Now, p, k, p))

\* such a process starts to listen on one of the two ports
ExtListen ==
    /\ Idle
    /\ \E p \in Alive(proc), q \in Ports :
       /\ proc[p].kind \in {"ext", "foreign"}
       /\ listen[q] = 0
       /\ p \notin {listen[r] : r \in Ports}
       /\ EnvStep(WithListener(Now, q, p))

\* a service, or a descendant of it, forks: the child is in its group
Fork ==
    /\ Idle
    /\ Room
    /\ \E p \in Alive(proc), c \in FreePids(proc) :
          /\ proc[p].kind \in {"backend", "frontend", "child"}
          /\ EnvStep(WithProc(Now, c, "child", proc[p].pgid))

Next ==
    \/ CmdStart
    \/ CmdStop
    \/ CmdRestart
    \/ CmdStatus
    \/ CmdLogs
    \/ CmdDev
    \/ CmdHelp
    \/ CmdUnknown
    \/ CmdMissing
    \/ Exit
    \/ ProcExit
    \/ ExtSpawn
    \/ ExtListen
    \/ Fork

Spec == Init /\ [][Next]_vars

(***************************************************************************)
(* TermSpec: Spec, and stop_process called on any (name, pid) and then     *)
(* once more on the same pair.                                             *)
(***************************************************************************)
TermCall ==
    /\ Idle
    /\ \E name \in {BackendName, FrontendName}, pid \in PIDS :
          \E o \in stop_process(Now, name, pid) : Ends(o.w, "term", 0)
    /\ UNCHANGED argv

TermAgain ==
    /\ lastCmd = "term"
    /\ \E o \in stop_process([Now EXCEPT !.tlog = termLog],
                             termLog[1].name, termLog[1].pid) :
          Ends(o.w, "term2", 0)
    /\ UNCHANGED argv

TermNext == Next \/ TermCall \/ TermAgain

TermSpec == Init /\ [][TermNext]_vars

(***************************************************************************)
(* StoreSpec: the PID file under save_pids, get_running_pids, unlink and   *)
(* an editor that appends lines.  save_pids is taken apart into open(),    *)
(* the f.write calls and close(): open(PID_FILE, 'w') truncates the file,  *)
(* the writes of a few short lines stay in the buffer of the file object,  *)
(* and close() flushes it.                                                 *)
(***************************************************************************)
\* the dictionaries save_pids is called with
StoreDicts ==
    {<<>>}
    \cup {<<[k |-> n, v |-> p]>> : n \in {BackendName, FrontendName},
                                   p \in 1..MaxStorePid}
    \cup {<<[k |-> o[1], v |-> p], [k |-> o[2], v |-> q]>> :
             o \in {<<BackendName, FrontendName>>, <<FrontendName, BackendName>>},
             p \in 1..MaxStorePid, q \in 1..MaxStorePid}

\* lines an editor, or a damaged disk, puts into the file
SampleLines ==
    {<<>>}
    \cup {l \o m \o r :
             l \in {BackendName, FrontendName},
             m \in {<<>>, <<"=">>},
             r \in {<<>>, <<"7">>, <<"x">>, <<"7", "=", "1">>}}

osUnchanged == UNCHANGED <<osVars, argv, exitCode, report, termLog, spawned>>

\* (the editor works on a file of its own making, not on one save_pids wrote)
StoreAppend ==
    /\ wpc = 0
    /\ lastCmd \in {"idle", "edit", "clear"}
    /\ Len(FileLines(pidFile.data)) < MaxLines
    /\ \E line \in SampleLines :
          pidFile' = [exists |-> TRUE, data |-> pidFile.data \o line \o <<"\n">>]
    /\ lastCmd' = "edit"
    /\ pids' = <<>>
    /\ saved' = <<>>
    /\ before' = <<>>
    /\ UNCHANGED <<wbuf, wpc>>
    /\ osUnchanged

\* PID_FILE.unlink() when PID_FILE.exists()
StoreClear ==
    /\ wpc = 0
    /\ pidFile' = NoFile
    /\ lastCmd' = "clear"
    /\ pids' = <<>>
    /\ saved' = <<>>
    /\ before' = <<>>
    /\ UNCHANGED <<wbuf, wpc>>
    /\ osUnchanged

\* line 61: open(PID_FILE, 'w')
SaveOpen ==
    /\ wpc = 0
    /\ \E d \in StoreDicts : saved' = d
    /\ before' = get_running_pids(pidFile)
    /\ pidFile' = [exists |-> TRUE, data |-> <<>>]
    /\ wbuf' = <<>>
    /\ wpc' = 1
    /\ lastCmd' = "save_open"
    /\ pids' = <<>>
    /\ osUnchanged

\* line 63: f.write of the next entry
SaveWrite ==
    /\ wpc \in 1..Len(saved)
    /\ wbuf' = wbuf \o PidLine(saved[wpc])
    /\ wpc' = wpc + 1
    /\ lastCmd' = "save_write"
    /\ pids' = <<>>
    /\ UNCHANGED <<pidFile, saved, before>>
    /\ osUnchanged

\* the end of the with block: close() flushes the buffer
SaveClose ==
    /\ wpc = Len(saved) + 1
    /\ pidFile' = [exists |-> TRUE, data |-> pidFile.data \o wbuf]
    /\ wbuf' = <<>>
    /\ wpc' = 0
    /\ lastCmd' = "save"
    /\ pids' = <<>>
    /\ before' = <<>>
    /\ UNCHANGED saved
    /\ osUnchanged

\* get_running_pids() of this or of another supervisor process
StoreLoad ==
    /\ pids' = get_running_pids(pidFile)
    /\ lastCmd' = IF wpc # 0 THEN "load_in_save"
                  ELSE IF lastCmd = "save" THEN "save_load"
                  ELSE "load"
    /\ UNCHANGED <<pidFile, saved, before, wbuf, wpc>>
    /\ osUnchanged

StoreNext ==
    \/ StoreAppend
    \/ StoreClear
    \/ SaveOpen
    \/ SaveWrite
    \/ SaveClose
    \/ StoreLoad

StoreSpec == Init /\ [][StoreNext]_vars

(***************************************************************************)
(* The claims                                                              *)
(***************************************************************************)
\* the PID table as a command finds it
Table == get_running_pids(pidFile)

NameOfKind(kind) == IF kind = "backend" THEN BackendName ELSE FrontendName

\* the services a command launched, as (name, pid) pairs
LaunchedIn(P, sp) == {<<NameOfKind(P[p].kind), p>> : p \in sp}

Launched == LaunchedIn(proc, spawned)

\* the table records service name under a PID
Tracked(name) == DictHas(Table, name)

\* ... and the liveness probe of that PID succeeds
TrackedAlive(name) ==
    /\ Tracked(name)
    /\ DictGet(Table, name) \in Alive(proc)
    /\ proc[DictGet(Table, name)].kind # "foreign"

\* table d records both services, and both processes are the services
BothRunningIn(d, P) ==
    /\ DictHas(d, BackendName)
    /\ DictHas(d, FrontendName)
    /\ DictGet(d, BackendName) \in PIDS
    /\ DictGet(d, FrontendName) \in PIDS
    /\ P[DictGet(d, BackendName)].kind = "backend"
    /\ P[DictGet(d, FrontendName)].kind = "frontend"

BothRunning == BothRunningIn(Table, proc)

AllOk(log) == \A i \in 1..Len(log) : log[i].ok

Services == {[name |-> BackendName, port |-> BACKEND_PORT, field |-> "backend"],
             [name |-> FrontendName, port |-> FRONTEND_PORT, field |-> "frontend"]}

\* C1: a stop that loads a non-empty table calls stop_process on every
\* entry, in order, and ends with the PID file gone, whether or not a call
\* reported failure.
C1_StopTerminatesAllAndDeletes ==
    [][(Idle /\ lastCmd' = "stop" /\ Table # <<>>)
       => /\ ~pidFile'.exists
          /\ Len(termLog') = Len(Table)
          /\ \A i \in 1..Len(Table) :
                termLog'[i].name = Table[i].k /\ termLog'[i].pid = Table[i].v]_vars

\* a stop of two tracked entries, one of whose terminations failed
C1_Witness ==
    /\ lastCmd = "stop"
    /\ Len(termLog) = 2
    /\ \E i \in 1..2 : ~termLog[i].ok
    /\ ~pidFile.exists

\* C2, as claimed: after every start that returns, the table holds exactly
\* the services launched by it, also when none was launched.
C2_Original ==
    (lastCmd = "start" /\ exitCode = 0) => DictPairs(Table) = Launched

\* C2, amended: after a start that returns, the table holds exactly the
\* services it launched if it launched any, and is left as it was if it
\* launched none.
C2_StartOverwritesWhenLaunched ==
    [][(Idle /\ lastCmd' = "start" /\ exitCode' = 0)
       => IF spawned' # {}
          THEN DictPairs(get_running_pids(pidFile')) = LaunchedIn(proc', spawned')
          ELSE pidFile' = pidFile]_vars

\* a start that launched the frontend beside a backend that was already up
\* and wrote a table of the one entry
C2_Witness ==
    /\ lastCmd = "start"
    /\ exitCode = 0
    /\ Cardinality(spawned) = 1
    /\ Len(Table) = 1
    /\ \E p \in Alive(proc) \ spawned : proc[p].kind = "backend"

\* C3, as claimed: a restart with both services running ends with both
\* running under PIDs of processes it launched, recorded in the table, and
\* the processes that ran before are gone.
C3_Original ==
    [][(Idle /\ lastCmd' = "restart" /\ BothRunning)
       => /\ BothRunningIn(get_running_pids(pidFile'), proc')
          /\ DictGet(get_running_pids(pidFile'), BackendName) \in spawned'
          /\ DictGet(get_running_pids(pidFile'), FrontendName) \in spawned'
          /\ \A p \in {DictGet(Table, BackendName), DictGet(Table, FrontendName)} :
                proc'[p].kind = "none" \/ p \in spawned']_vars

\* C3, amended: a restart with both services running calls stop_process on
\* both; when both calls report success the processes that ran before are
\* gone; and the table it leaves records exactly the services it launched
\* (no table when it launched none).
C3_RestartReplaces ==
    [][(Idle /\ lastCmd' = "restart" /\ BothRunning)
       => /\ Len(termLog') = 2
          /\ AllOk(termLog')
                => \A p \in {DictGet(Table, BackendName), DictGet(Table, FrontendName)} :
                      proc'[p].kind = "none" \/ p \in spawned'
          /\ IF spawned' = {} THEN ~pidFile'.exists
             ELSE DictPairs(get_running_pids(pidFile')) = LaunchedIn(proc', spawned')]_vars

\* a restart that ended two running processes and launched both services
C3_Witness ==
    /\ lastCmd = "restart"
    /\ Len(termLog) = 2
    /\ termLog[1].running
    /\ termLog[2].running
    /\ AllOk(termLog)
    /\ Cardinality(spawned) = 2
    /\ BothRunning

\* C4, as claimed: status reports running exactly for a tracked service
\* whose PID passes the liveness probe, port-in-use exactly for a service
\* that is not tracked and whose port is busy, stopped otherwise.
C4_Original ==
    lastCmd = "status"
    => \A s \in Services :
          /\ report[s.field] \in {"running", "port_in_use", "stopped"}
          /\ report[s.field] = "running" <=> TrackedAlive(s.name)
          /\ report[s.field] = "port_in_use"
                <=> (~Tracked(s.name) /\ listen[s.port] # 0)

\* C4, amended: port-in-use is reported exactly when the service is not
\* both tracked and alive and its port is busy (so also for a tracked
\* service whose PID is gone).
C4_StatusThreeWay ==
    lastCmd = "status"
    => \A s \in Services :
          /\ report[s.field] \in {"running", "port_in_use", "stopped"}
          /\ report[s.field] = "running" <=> TrackedAlive(s.name)
          /\ report[s.field] = "port_in_use"
                <=> (~TrackedAlive(s.name) /\ listen[s.port] # 0)

\* a status of a tracked backend whose PID is gone while another process
\* listens on its port
C4_Witness ==
    /\ lastCmd = "status"
    /\ Tracked(BackendName)
    /\ ~TrackedAlive(BackendName)
    /\ listen[BACKEND_PORT] # 0
    /\ report.backend = "port_in_use"

\* C5: status changes neither the table nor any process nor any port, and
\* a service recorded under a PID that is not alive, with its port free, is
\* reported stopped.
C5_StaleRecordNotTrusted ==
    [][(Idle /\ lastCmd' = "status")
       => /\ UNCHANGED <<proc, listen, pidFile, nodeModules, logExists>>
          /\ \A s \in Services :
                (/\ Tracked(s.name)
                 /\ DictGet(Table, s.name) \notin Alive(proc)
                 /\ listen[s.port] = 0)
                => report'[s.field] = "stopped"]_vars

\* a status of a backend recorded under a PID that is gone, its port free
C5_Witness ==
    /\ lastCmd = "status"
    /\ Tracked(BackendName)
    /\ DictGet(Table, BackendName) \notin Alive(proc)
    /\ listen[BACKEND_PORT] = 0
    /\ report.backend = "stopped"

C7_Original == lastCmd = "term2" => termLog[2].ok

\* C7, amended: the second of two stop_process calls on the same pair
\* reports success whenever the first did (already stopped, stopped on
\* SIGTERM, or after the escalation to SIGKILL).
C7_SecondCallSucceedsAfterSuccess ==
    (lastCmd = "term2" /\ termLog[1].ok) => termLog[2].ok

\* two calls on a live process: the first escalated to SIGKILL, the second
\* found it gone
C7_Witness ==
    /\ lastCmd = "term2"
    /\ termLog[1].running
    /\ termLog[1].ok
    /\ Len(termLog[1].sigs) = 2
    /\ ~termLog[2].running
    /\ termLog[2].ok

\* a well-formed line as C8 reads the file: of the form name=integer
WellFormedLine(line) ==
    LET t == Strip(line)
    IN  /\ Contains(t, "=")
        /\ Len(Split(t, "=")) = 2
        /\ IntOk(Split(t, "=")[2])

\* the entries of the well-formed lines, every other line skipped
RECURSIVE WellFormedEntries(_, _)
WellFormedEntries(lines, acc) ==
    IF lines = <<>> THEN acc
    ELSE IF WellFormedLine(Head(lines))
         THEN LET parts == Split(Strip(Head(lines)), "=")
              IN  WellFormedEntries(Tail(lines),
                                    DictPut(acc, parts[1], ParseInt(parts[2])))
         ELSE WellFormedEntries(Tail(lines), acc)

\* C8: get_running_pids returns exactly the entries of the well-formed
\* lines of the file, whatever malformed lines stand between them.
C8_LoadSkipsMalformedLines ==
    lastCmd \in {"load", "save_load", "load_in_save"}
    => DictPairs(pids) = DictPairs(WellFormedEntries(FileLines(pidFile.data), <<>>))

\* C9: get_running_pids after save_pids returns the mapping saved, and
\* get_running_pids without a PID file returns the empty mapping.
C9_SaveLoadRoundTrip ==
    /\ lastCmd = "save_load" => DictPairs(pids) = DictPairs(saved)
    /\ (lastCmd = "load" /\ ~pidFile.exists) => pids = <<>>

\* a table of two entries, one of them a PID of two digits, read back
C9_Witness ==
    /\ lastCmd = "save_load"
    /\ Len(saved) = 2
    /\ saved[1].v >= 10
    /\ saved[2].v < 10
    /\ pids = saved

\* C10: a get_running_pids that runs between the open() and the close() of
\* a save_pids returns the table as it was before or the table being saved.
C10_SaveAtomicForReader ==
    lastCmd = "load_in_save"
    => DictPairs(pids) \in {DictPairs(before), DictPairs(saved)}

\* the processes of service kind among those the last command spawned
SpawnedOf(P, sp, kind) == {p \in sp : P[p].kind = kind}

\* C11: a start that finds a service's port occupied spawns no process for
\* that service and, when it writes the table, records no PID for it; and
\* with the backend port occupied and the frontend port free the frontend
\* launch is still made (while the OS has a PID to hand out, an outcome
\* with a frontend process exists).
C11_PortConflictSkipsOnlyThatService ==
    [][(Idle /\ lastCmd' = "start")
       => /\ \A s \in Services :
                listen[s.port] # 0
                => /\ SpawnedOf(proc', spawned', s.field) = {}
                   /\ spawned' # {} => ~DictHas(get_running_pids(pidFile'), s.name)
          /\ (/\ listen[BACKEND_PORT] # 0
              /\ listen[FRONTEND_PORT] = 0
              /\ FreePids(proc) # {})
                => \E o \in cmd_start(Now) :
                      SpawnedOf(o.w.proc, o.w.spawned, "frontend") # {}]_vars

\* a start with the backend port held by a process it did not launch: the
\* frontend was launched and the table records the frontend alone
C11_Witness ==
    /\ lastCmd = "start"
    /\ listen[BACKEND_PORT] \in Alive(proc) \ spawned
    /\ proc[listen[BACKEND_PORT]].kind = "ext"
    /\ SpawnedOf(proc, spawned, "frontend") # {}
    /\ DictKeys(Table) = {FrontendName}

\* C12: a dev that Ctrl+C ended, at whichever blocking point, has terminated
\* the frontend it launched and removed the PID file before it exits.
C12_DevInterruptCleansUp ==
    lastCmd = "dev_interrupted"
    => /\ spawned \cap Alive(proc) = {}
       /\ ~pidFile.exists

\* the words of the commands that act on the services or the log
RecognisedWords == {StartWord, StopWord, RestartWord, StatusWord, LogsWord, DevWord}

\* C13: a command line without a word, or with a word that is neither a
\* command nor a help word whatever its capitals, exits 1; a help word exits
\* 0; a command exits 0, or 1 after a failed npm install (node_modules still
\* absent, backend port free), and with no other code.
C13_ExitCodes ==
    argv # <<>>
    => IF Len(argv) < 2 THEN exitCode = 1
       ELSE LET word == Lower(argv[2])
            IN  IF word \in HelpWords THEN exitCode = 0
                ELSE IF word \in RecognisedWords
                THEN \/ exitCode = 0
                     \/ /\ exitCode = 1
                        /\ word \in {StartWord, RestartWord, DevWord}
                        /\ ~nodeModules
                        /\ listen[BACKEND_PORT] = 0
                ELSE exitCode = 1

\* C14: in a stop_process call on a PID that passed the liveness check, the
\* first signal delivered is SIGTERM to the group of the PID; SIGKILL comes
\* only second, to the same group, and only when the PID was still there
\* after the grace period; and when the call reports success the PID is gone.
C14_TermThenKill ==
    \A i \in 1..Len(termLog) :
        LET e == termLog[i]
        IN  e.running
            => /\ Len(e.sigs) <= 2
               /\ Len(e.sigs) >= 1
                     => /\ e.sigs[1].sig = "SIGTERM"
                        /\ e.pid \in e.sigs[1].hit
               /\ Len(e.sigs) = 2
                     => /\ e.sigs[2].sig = "SIGKILL"
                        /\ e.sigs[2].pgid = e.sigs[1].pgid
                        /\ e.pid \in e.sigs[2].hit
                        /\ e.sigs[2].hit \subseteq e.sigs[1].hit
               /\ (e.ok /\ lastCmd \in {"term", "term2", "stop", "dev_interrupted"})
                     => e.pid \notin Alive(proc)

\* a call on a live service with a child: SIGTERM reached both, the service
\* stayed, SIGKILL followed, and the service is gone
C14_Witness ==
    /\ lastCmd = "term"
    /\ termLog[1].running
    /\ termLog[1].ok
    /\ Len(termLog[1].sigs) = 2
    /\ Cardinality(termLog[1].sigs[1].hit) = 2
    /\ termLog[1].pid \notin Alive(proc)

\* group g is the group of a service: a launched service or descendants of it
ServiceGroup(P, g) ==
    \E q \in Group(P, g) : P[q].kind \in {"backend", "frontend", "child"}

\* C15: when a stop_process call of stop that signalled the group of a
\* service reports success, no process of that group is alive afterwards,
\* descendants that do not exit on SIGTERM included.
C15_GroupGoneAfterSuccess ==
    [][(Idle /\ lastCmd' = "stop")
       => \A i \in 1..Len(termLog') :
             (/\ termLog'[i].ok
              /\ termLog'[i].sigs # <<>>
              /\ ServiceGroup(proc, termLog'[i].pid))
             => Group(proc', termLog'[i].pid) = {}]_vars

\* C16: every PID in a table that start, restart or dev put in the place of
\* the one it found is the PID of a process the command launched and found
\* alive at the poll() after the settle delay, recorded under the name of
\* its service; a launch whose process exited during the delay contributes
\* no entry.
C16_RecordedPidsPassedSettleCheck ==
    [][(/\ Idle
        /\ lastCmd' \in {"start", "restart", "dev", "dev_interrupted"}
        /\ pidFile'.exists
        /\ pidFile' # pidFile)
       => LET d == get_running_pids(pidFile')
          IN  \A i \in 1..Len(d) :
                 /\ d[i].v \in spawned'
                 /\ lastCmd' \in {"start", "restart"}
                       => d[i].k = NameOfKind(proc'[d[i].v].kind)]_vars

\* a start whose backend exited during the settle delay (its port is free,
\* the log file was opened) while the frontend came up: the table records
\* the frontend alone
C16_Witness ==
    /\ lastCmd = "start"
    /\ exitCode = 0
    /\ logExists
    /\ listen[BACKEND_PORT] = 0
    /\ SpawnedOf(proc, spawned, "backend") = {}
    /\ SpawnedOf(proc, spawned, "frontend") # {}
    /\ DictKeys(Table) = {FrontendName}

\* every live service the supervisor launched in the background is recorded
\* in table d under its name and PID
NoOrphansIn(d, P) ==
    \A p \in Alive(P) :
        P[p].kind \in {"backend", "frontend"}
        => <<NameOfKind(P[p].kind), p>> \in DictPairs(d)

\* C17: the no-orphan invariant is kept by start: when every live service
\* is recorded in the table before a start, every live service is recorded
\* in the table after it.
C17_StartKeepsNoOrphans ==
    [][(Idle /\ lastCmd' = "start" /\ NoOrphansIn(Table, proc))
       => NoOrphansIn(get_running_pids(pidFile'), proc')]_vars

\* C18: every process a signal of stop reaches is a service the supervisor
\* launched or a descendant of one, also when the PID of a tracked process
\* went to another process after the tracked one exited.
C18_StopSignalsOnlyOwnProcesses ==
    [][(Idle /\ lastCmd' = "stop")
       => \A i \in 1..Len(termLog') :
             \A j \in 1..Len(termLog'[i].sigs) :
                \A q \in termLog'[i].sigs[j].hit :
                   proc[q].kind \in {"backend", "frontend", "child"}]_vars

====
